---- MODULE Spec2Model ----
(***************************************************************************)
(* DHCPv4 client connection (src/src/n-dhcp4-c-connection.c).              *)
(*                                                                         *)
(* The connection owns a packet socket (pfd) and a UDP socket (ufd), both  *)
(* registered on an epoll instance it borrows through the pointer efdp.    *)
(* The model keeps the connection object, the value *efdp, and the part of *)
(* the kernel the code talks to: the descriptor table, the registrations   *)
(* of the epoll instance and the receive queue of every socket.            *)
(***************************************************************************)
EXTENDS Integers, Sequences, FiniteSets, TLC

(* ------------------------------ bounds -------------------------------- *)

\* Size of the descriptor table: descriptors are 0 .. MaxFd-1.
MaxFd == 3
\* Datagrams the network delivers in one run.
MaxMsgs == 2
\* Datagrams the network delivers in one run of the drain.
MaxDrainMsgs == 3
\* Calls of a phase operation in one run.
MaxSends == 1

(* ----------------------- constants of the program --------------------- *)

N_DHCP4_CONNECTION_STATE_INIT == 0
N_DHCP4_CONNECTION_STATE_PACKET == 1
N_DHCP4_CONNECTION_STATE_DRAINING == 2
N_DHCP4_CONNECTION_STATE_UDP == 3

\* sizeof(connection->chaddr), the bound init checks hlen against
CHADDR_SIZE == 16

\* <errno.h>
EIO == 5
EBADF == 9
EAGAIN == 11
ENOMEM == 12
EEXIST == 17
EINVAL == 22
EMFILE == 24

\* <net/if_arp.h>
ARPHRD_ETHER == 1
ARPHRD_INFINIBAND == 32

(* ------------------------------ kernel -------------------------------- *)

Fds == 0 .. (MaxFd - 1)

\* The NULL message pointer.
NoMessage == [kind |-> "null"]

IsOpen(k, fd) == fd \in Fds /\ k.fdtab[fd] # "free"

IsEpoll(k, e) == e \in Fds /\ k.fdtab[e] = "epoll"

HasFree(k) == \E f \in Fds : k.fdtab[f] = "free"

\* The kernel hands out the lowest free descriptor number.
LowestFree(k) ==
    CHOOSE f \in Fds : /\ k.fdtab[f] = "free"
                       /\ \A g \in Fds : k.fdtab[g] = "free" => f <= g

\* socket(2) / epoll_create(2): a new descriptor of the given kind.
OpenFd(k, kind) ==
    [k EXCEPT !.fdtab[LowestFree(k)] = kind, !.rxq[LowestFree(k)] = <<>>]

\* close(2): the descriptor leaves the table and every epoll set; closing
\* the epoll instance drops all its registrations.  EBADF changes nothing.
CloseFd(k, fd) ==
    IF ~IsOpen(k, fd) THEN k
    ELSE [k EXCEPT !.fdtab[fd] = "free",
                   !.reg = IF k.fdtab[fd] = "epoll" THEN {} ELSE @ \ {fd},
                   !.rxq[fd] = <<>>,
                   !.shut = @ \ {fd}]

\* epoll_ctl(e, EPOLL_CTL_ADD, fd): the result (0 or -errno).
EpollAddResult(k, e, fd, nomem) ==
    IF ~IsOpen(k, e) THEN -EBADF
    ELSE IF ~IsEpoll(k, e) THEN -EINVAL
    ELSE IF ~IsOpen(k, fd) THEN -EBADF
    ELSE IF fd = e THEN -EINVAL
    ELSE IF fd \in k.reg THEN -EEXIST
    ELSE IF nomem THEN -ENOMEM
    ELSE 0

EpollAdd(k, e, fd, nomem) ==
    IF EpollAddResult(k, e, fd, nomem) = 0
    THEN [k EXCEPT !.reg = @ \cup {fd}]
    ELSE k

\* epoll_ctl(e, EPOLL_CTL_DEL, fd); the code ignores its result.
EpollDel(k, e, fd) ==
    IF IsEpoll(k, e) /\ fd \in k.reg
    THEN [k EXCEPT !.reg = @ \ {fd}]
    ELSE k

(* ---------------------------- byte arrays ------------------------------ *)

\* A byte array of the given size holding s, padded with zeroes.
Bytes(s, size) == [i \in 1 .. size |-> IF i <= Len(s) THEN s[i] ELSE 0]

\* memcmp(a, b, n) == 0
MemEq(a, b, n) == \A i \in 1 .. n : a[i] = b[i]

\* memcpy(dst, src, n), for n within both arrays
MemCpy(dst, src, n) == [i \in DOMAIN dst |-> IF i <= n THEN src[i] ELSE dst[i]]

(* ------------------------------- inputs ------------------------------- *)

\* Size of the identifier buffer and of the identifiers the callers pass.
IdSize == 2

Hw(a, b) == Bytes(<<a, b>>, CHADDR_SIZE)

\* Arguments of init: three valid identities and the two invalid shapes.
InitArgs ==
    { [ifindex |-> 3, htype |-> ARPHRD_ETHER, hlen |-> 2, chaddr |-> Hw(1, 1),
       bhaddr |-> Hw(255, 255), idlen |-> 0, id |-> Bytes(<<>>, IdSize),
       request_broadcast |-> FALSE],
      [ifindex |-> 3, htype |-> ARPHRD_ETHER, hlen |-> 1, chaddr |-> Hw(1, 1),
       bhaddr |-> Hw(255, 255), idlen |-> 2, id |-> Bytes(<<7, 8>>, IdSize),
       request_broadcast |-> TRUE],
      [ifindex |-> 3, htype |-> ARPHRD_INFINIBAND, hlen |-> 2, chaddr |-> Hw(1, 1),
       bhaddr |-> Hw(255, 255), idlen |-> 2, id |-> Bytes(<<7, 8>>, IdSize),
       request_broadcast |-> FALSE],
      [ifindex |-> 3, htype |-> ARPHRD_ETHER, hlen |-> CHADDR_SIZE + 1, chaddr |-> Hw(1, 1),
       bhaddr |-> Hw(255, 255), idlen |-> 0, id |-> Bytes(<<>>, IdSize),
       request_broadcast |-> FALSE],
      [ifindex |-> 3, htype |-> ARPHRD_ETHER, hlen |-> 2, chaddr |-> Hw(1, 1),
       bhaddr |-> Hw(255, 255), idlen |-> 1, id |-> Bytes(<<7>>, IdSize),
       request_broadcast |-> FALSE] }

\* No identifier option in the message.
NoOption == <<-1>>

\* The datagrams the network may deliver: well-formed messages with a header
\* chaddr and an optional CLIENT_IDENTIFIER, a datagram the codec rejects,
\* and a datagram of length zero.
Datagrams ==
    { [kind |-> "ok", chaddr |-> Hw(1, 1), cid |-> NoOption],
      [kind |-> "ok", chaddr |-> Hw(1, 2), cid |-> NoOption],
      [kind |-> "ok", chaddr |-> Hw(1, 1), cid |-> <<7, 8>>],
      [kind |-> "malformed", chaddr |-> Hw(0, 0), cid |-> NoOption],
      [kind |-> "empty", chaddr |-> Hw(0, 0), cid |-> NoOption] }

\* Addresses passed to connect.
Clients == {10}
Servers == {1, 2}

(* ------------------------------- state -------------------------------- *)

VARIABLES
    connection,   \* the NDhcp4CConnection object
    efd,          \* *connection->efdp, the notifier handle owned by the client
    kernel,       \* descriptor table, epoll registrations, receive queues
    fault,        \* "none", or how the process died: "assert", "segv"
    ret,          \* the last call: operation, result and *messagep (a call
                  \* the process died in is recorded with result 0)
    given,        \* arguments of the last successful init
    arrivals,     \* datagrams delivered so far
    drain,        \* packet-socket datagrams queued at connect and not yet read
    surfaced,     \* messages dispatch returned since connect
    sent,         \* the last transmission: transport, descriptor, message
    sends         \* phase operations called so far

vars == <<connection, efd, kernel, fault, ret, given, arrivals, drain, surfaced,
          sent, sends>>

\* N_DHCP4_C_CONNECTION_NULL(efdp): the zeroed form with both descriptors -1.
N_DHCP4_C_CONNECTION_NULL ==
    [state |-> N_DHCP4_CONNECTION_STATE_INIT, pfd |-> -1, ufd |-> -1,
     ifindex |-> 0, htype |-> 0, hlen |-> 0,
     chaddr |-> Bytes(<<>>, CHADDR_SIZE), bhaddr |-> Bytes(<<>>, CHADDR_SIZE),
     idlen |-> 0, id |-> Bytes(<<>>, IdSize),
     request_broadcast |-> FALSE, send_chaddr |-> FALSE,
     mtu |-> 0, ciaddr |-> 0, siaddr |-> 0]

\* given before init, and after deinit
NoArgs == [ifindex |-> -1]
Deinitialised == [ifindex |-> -2]

NoSend == [transport |-> "none"]

\* What the caller sees of a call: its result and *messagep, with the state
\* the connection was in when the call was made.
Returned(op, r, m) == [op |-> op, r |-> r, message |-> m, at |-> connection.state]

KernelInit(e) ==
    [fdtab |-> [f \in Fds |-> IF f = e THEN "epoll" ELSE "free"],
     reg |-> {},
     rxq |-> [f \in Fds |-> <<>>],
     shut |-> {}]

\* The client created its epoll instance before the connection object.
Init ==
    /\ efd = LowestFree(KernelInit(-1))
    /\ kernel = KernelInit(efd)
    /\ connection = N_DHCP4_C_CONNECTION_NULL
    /\ fault = "none"
    /\ ret = [op |-> "none", r |-> 0, message |-> NoMessage,
               at |-> N_DHCP4_CONNECTION_STATE_INIT]
    /\ given = NoArgs
    /\ arrivals = 0
    /\ drain = <<>>
    /\ surfaced = <<>>
    /\ sent = NoSend
    /\ sends = 0

(* --------------------------- init and deinit --------------------------- *)

\* The process is running.
Alive == fault = "none"

\* The caller initialises a connection object once, uses it, and does not use
\* it again after deinit.
Initialised == Alive /\ given.ifindex >= 0


n_dhcp4_c_connection_init(a) ==
    /\ Alive
    /\ given = NoArgs
    /\ IF a.hlen > CHADDR_SIZE \/ a.idlen = 1
       THEN /\ ret' = Returned("init", -EINVAL, NoMessage)
            /\ UNCHANGED <<connection, given>>
       ELSE /\ connection' =
                 [connection EXCEPT
                    !.ifindex = a.ifindex,
                    !.htype = a.htype,
                    !.hlen = a.hlen,
                    !.request_broadcast =
                        IF a.htype = ARPHRD_INFINIBAND THEN TRUE ELSE a.request_broadcast,
                    !.bhaddr = MemCpy(@, a.bhaddr, a.hlen),
                    !.chaddr = MemCpy(@, a.chaddr, a.hlen),
                    !.id = MemCpy(@, a.id, a.idlen),
                    !.send_chaddr =
                        IF a.htype = ARPHRD_INFINIBAND THEN @ ELSE TRUE]
            /\ given' = a
            /\ ret' = Returned("init", 0, NoMessage)
    /\ UNCHANGED <<efd, kernel, fault, arrivals, drain, surfaced, sent, sends>>

\* The descriptor work of deinit: nothing unless the notifier handle is valid.
DeinitKernel(c, k, e) ==
    IF e >= 0
    THEN LET k1 == IF c.ufd >= 0 THEN CloseFd(EpollDel(k, e, c.ufd), c.ufd) ELSE k
         IN  IF c.pfd >= 0 THEN CloseFd(EpollDel(k1, e, c.pfd), c.pfd) ELSE k1
    ELSE k

n_dhcp4_c_connection_deinit ==
    /\ Initialised
    /\ kernel' = DeinitKernel(connection, kernel, efd)
    /\ connection' = N_DHCP4_C_CONNECTION_NULL
    /\ ret' = Returned("deinit", 0, NoMessage)
    /\ given' = Deinitialised
    /\ drain' = <<>>
    /\ surfaced' = <<>>
    /\ UNCHANGED <<efd, fault, arrivals, sent, sends>>

(* -------------------------- listen and connect ------------------------- *)

\* The process dies on a failed assert(): nothing else changes.
Abort(op) ==
    /\ fault' = "assert"
    /\ ret' = Returned(op, 0, NoMessage)
    /\ UNCHANGED <<connection, efd, kernel, given, arrivals, drain, surfaced, sent>>

\* n_dhcp4_network_client_packet_socket_new / ..._udp_socket_new: on success
\* the new descriptor is stored through the pointer, on failure it is not.
SocketNewFails(k, sockfail) == sockfail \/ ~HasFree(k)

n_dhcp4_c_connection_listen(sockfail, nomem) ==
    /\ Initialised
    /\ IF connection.state # N_DHCP4_CONNECTION_STATE_INIT
       THEN Abort("listen") /\ UNCHANGED sends
       ELSE /\ IF SocketNewFails(kernel, sockfail)
               THEN /\ ret' = Returned("listen", -EMFILE, NoMessage)
                    /\ UNCHANGED <<connection, kernel>>
               ELSE LET c1 == [connection EXCEPT !.pfd = LowestFree(kernel)]
                        k1 == OpenFd(kernel, "packet")
                        r  == EpollAddResult(k1, efd, c1.pfd, nomem)
                    IN  IF r < 0
                        THEN /\ connection' = c1
                             /\ kernel' = k1
                             /\ ret' = Returned("listen", r, NoMessage)
                        ELSE /\ connection' =
                                  [c1 EXCEPT !.state = N_DHCP4_CONNECTION_STATE_PACKET]
                             /\ kernel' = EpollAdd(k1, efd, c1.pfd, nomem)
                             /\ ret' = Returned("listen", 0, NoMessage)
            /\ UNCHANGED <<efd, fault, given, arrivals, drain, surfaced, sent, sends>>

\* The descriptor connect hands to EPOLL_CTL_ADD.
ConnectRegisteredFd(c) == c.pfd

\* packet_shutdown(): no datagram is queued on the socket any more.
PacketShutdown(k, fd) == [k EXCEPT !.shut = @ \cup {fd}]

\* The identifiers of the datagrams queued on a socket.
Queued(k, fd) == IF fd \in Fds THEN [i \in 1 .. Len(k.rxq[fd]) |-> k.rxq[fd][i].n] ELSE <<>>

n_dhcp4_c_connection_connect(client, server, sockfail, nomem, shutfail) ==
    /\ Initialised
    /\ IF connection.state # N_DHCP4_CONNECTION_STATE_PACKET
       THEN Abort("connect") /\ UNCHANGED sends
       ELSE /\ IF SocketNewFails(kernel, sockfail)
               THEN /\ ret' = Returned("connect", -EMFILE, NoMessage)
                    /\ UNCHANGED <<connection, kernel, drain, surfaced>>
               ELSE LET c1 == [connection EXCEPT !.ufd = LowestFree(kernel)]
                        k1 == OpenFd(kernel, "udp")
                        r  == EpollAddResult(k1, efd, ConnectRegisteredFd(c1), nomem)
                        k2 == EpollAdd(k1, efd, ConnectRegisteredFd(c1), nomem)
                    IN  IF r < 0
                        THEN /\ connection' = c1
                             /\ kernel' = k1
                             /\ ret' = Returned("connect", r, NoMessage)
                             /\ UNCHANGED <<drain, surfaced>>
                        ELSE IF shutfail \/ ~IsOpen(k2, c1.pfd)
                        THEN /\ connection' = c1
                             /\ kernel' = k2
                             /\ ret' = Returned("connect", -EBADF, NoMessage)
                             /\ UNCHANGED <<drain, surfaced>>
                        ELSE /\ connection' =
                                  [c1 EXCEPT !.ciaddr = client,
                                             !.siaddr = server,
                                             !.state = N_DHCP4_CONNECTION_STATE_DRAINING]
                             /\ kernel' = PacketShutdown(k2, c1.pfd)
                             /\ ret' = Returned("connect", 0, NoMessage)
                             /\ drain' = Queued(k2, c1.pfd)
                             /\ surfaced' = <<>>
            /\ UNCHANGED <<efd, fault, given, arrivals, sent, sends>>

(* ------------------------------ dispatch ------------------------------- *)

\* The length of the CLIENT_IDENTIFIER option n_dhcp4_incoming_query reports;
\* -ENODATA (no such option) is turned into length 0.
QueriedIdLen(m) == IF m.cid = NoOption THEN 0 ELSE Len(m.cid)

\* The length verify_incoming compares the option's length with.
ExpectedIdLen(c) == c.idlen

\* The number of chaddr bytes verify_incoming compares.
ComparedHlen(c) == c.hlen

\* n_dhcp4_c_connection_verify_incoming on a message that exists: 0 or -EINVAL.
n_dhcp4_c_connection_verify_incoming(c, m) ==
    IF ~MemEq(c.chaddr, m.chaddr, ComparedHlen(c)) THEN -EINVAL
    ELSE IF QueriedIdLen(m) # ExpectedIdLen(c) THEN -EINVAL
    ELSE IF ~MemEq(c.id, m.cid, QueriedIdLen(m)) THEN -EINVAL
    ELSE 0

\* recv() on a non-blocking socket followed by n_dhcp4_incoming_new: the
\* result, the message and the kernel afterwards.  consumed tells whether a
\* datagram left the queue.
Receive(k, fd, ioerr) ==
    IF ~IsOpen(k, fd)
    THEN [r |-> -EBADF, message |-> NoMessage, k |-> k, consumed |-> FALSE]
    ELSE IF ioerr
    THEN [r |-> -EIO, message |-> NoMessage, k |-> k, consumed |-> FALSE]
    ELSE IF k.rxq[fd] = <<>>
    THEN [r |-> -EAGAIN, message |-> NoMessage, k |-> k, consumed |-> FALSE]
    ELSE LET d  == Head(k.rxq[fd])
             k1 == [k EXCEPT !.rxq[fd] = Tail(@)]
         IN  IF d.kind = "empty"
             THEN [r |-> 0, message |-> NoMessage, k |-> k1, consumed |-> TRUE]
             ELSE IF d.kind = "malformed"
             THEN [r |-> -EINVAL, message |-> NoMessage, k |-> k1, consumed |-> TRUE]
             ELSE [r |-> 0, message |-> d, k |-> k1, consumed |-> TRUE]

n_dhcp4_c_connection_dispatch_packet(c, k, ioerr) == Receive(k, c.pfd, ioerr)

n_dhcp4_c_connection_dispatch_udp(c, k, ioerr) == Receive(k, c.ufd, ioerr)

\* A drain that no packet read ends.
DrainNeverComplete(r) == FALSE

\* A drain that any failed packet read ends.
DrainCompleteOnAnyError(r) == r < 0

\* In DRAINING, the result of the packet read that ends the drain.
DrainComplete(r) == r = -EAGAIN

\* A drain that ends where listen left the connection.
DrainedToPacket(c) == [c EXCEPT !.state = N_DHCP4_CONNECTION_STATE_PACKET]

\* The connection after the drain completed.
Drained(c) == [c EXCEPT !.state = N_DHCP4_CONNECTION_STATE_UDP]

\* The switch of dispatch: which socket was read (src), what came back, the
\* connection and the kernel afterwards, whether dispatch returned from
\* inside the switch (early), and how many packet-socket datagrams were read.
DispatchSwitch(c, k, e, perr, uerr) ==
    LET p == n_dhcp4_c_connection_dispatch_packet(c, k, perr)
        fromPacket(early) ==
            [r |-> p.r, message |-> p.message, c |-> c, k |-> p.k,
             early |-> early, src |-> "packet", pread |-> p.consumed]
        fromUdp(c1, k1, pread) ==
            LET u == n_dhcp4_c_connection_dispatch_udp(c1, k1, uerr)
            IN  [r |-> u.r, message |-> u.message, c |-> c1, k |-> u.k,
                 early |-> u.r < 0, src |-> "udp", pread |-> pread]
    IN  CASE c.state = N_DHCP4_CONNECTION_STATE_PACKET -> fromPacket(p.r < 0)
          [] c.state = N_DHCP4_CONNECTION_STATE_DRAINING ->
                IF p.r >= 0 THEN fromPacket(FALSE)
                ELSE IF ~DrainComplete(p.r) THEN fromPacket(TRUE)
                ELSE fromUdp(Drained(c),
                             CloseFd(EpollDel(p.k, e, c.pfd), c.pfd),
                             p.consumed)
          [] c.state = N_DHCP4_CONNECTION_STATE_UDP -> fromUdp(c, k, FALSE)
          [] OTHER ->
                [r |-> 0, message |-> NoMessage, c |-> c, k |-> k,
                 early |-> FALSE, src |-> "none", pread |-> FALSE]

\* The history of the drain: a datagram read from the packet socket while
\* draining is the oldest one that was queued at connect.
DrainAfter(c, s) ==
    IF c.state = N_DHCP4_CONNECTION_STATE_DRAINING /\ s.pread /\ drain # <<>>
    THEN Tail(drain) ELSE drain

n_dhcp4_c_connection_dispatch(perr, uerr, ub) ==
    /\ Initialised
    /\ LET s == DispatchSwitch(connection, kernel, efd, perr, uerr)
       IN  /\ connection' = s.c
           /\ kernel' = s.k
           /\ drain' = DrainAfter(connection, s)
           /\ IF s.early
              THEN /\ ret' = Returned("dispatch", s.r, NoMessage)
                   /\ UNCHANGED <<fault, surfaced>>
              ELSE IF s.message = NoMessage
              \* verify_incoming dereferences the NULL message: undefined
              \* behaviour, a crash or a call that goes on with garbage.
              THEN /\ fault' = IF ub = "segv" THEN "segv" ELSE fault
                   /\ ret' = Returned("dispatch", 0, NoMessage)
                   /\ UNCHANGED surfaced
              ELSE IF n_dhcp4_c_connection_verify_incoming(s.c, s.message) < 0
              THEN /\ ret' = Returned("dispatch", 0, NoMessage)
                   /\ UNCHANGED <<fault, surfaced>>
              ELSE /\ ret' = Returned("dispatch", 0, s.message)
                   /\ surfaced' =
                        IF s.c.state >= N_DHCP4_CONNECTION_STATE_DRAINING
                        THEN Append(surfaced,
                                    [src |-> s.src, n |-> s.message.n,
                                     left |-> Len(drain')])
                        ELSE surfaced
                   /\ UNCHANGED fault
    /\ UNCHANGED <<efd, given, arrivals, sent, sends>>

(* ----------------------------- environment ----------------------------- *)

\* The network queues a datagram on a socket of the connection that is open
\* and was not shut down (nothing ever reads a socket the connection lost).
Arrive(fd, d, max) ==
    /\ Alive
    /\ arrivals < max
    /\ kernel.fdtab[fd] \in {"packet", "udp"}
    /\ fd \in {connection.pfd, connection.ufd}
    /\ fd \notin kernel.shut
    /\ arrivals' = arrivals + 1
    /\ kernel' = [kernel EXCEPT
                    !.rxq[fd] = Append(@, [kind |-> d.kind, chaddr |-> d.chaddr,
                                           cid |-> d.cid, n |-> arrivals + 1])]
    /\ UNCHANGED <<connection, efd, fault, ret, given, drain, surfaced, sent, sends>>

\* The client closes its epoll instance and marks the handle invalid.
NotifierClose ==
    /\ Alive
    /\ efd >= 0
    /\ kernel' = CloseFd(kernel, efd)
    /\ efd' = -1
    /\ UNCHANGED <<connection, fault, ret, given, arrivals, drain, surfaced, sent, sends>>

\* The client creates an epoll instance and stores its descriptor in the handle.
NotifierOpen ==
    /\ Alive
    /\ efd < 0
    /\ HasFree(kernel)
    /\ efd' = LowestFree(kernel)
    /\ kernel' = OpenFd(kernel, "epoll")
    /\ UNCHANGED <<connection, fault, ret, given, arrivals, drain, surfaced, sent, sends>>

(* ------------------------- message construction ----------------------- *)

N_DHCP4_OP_BOOTREQUEST == 1
N_DHCP4_MESSAGE_FLAG_BROADCAST == 32768

N_DHCP4_MESSAGE_DISCOVER == 1
N_DHCP4_MESSAGE_REQUEST == 3
N_DHCP4_MESSAGE_DECLINE == 4
N_DHCP4_MESSAGE_RELEASE == 7
N_DHCP4_MESSAGE_INFORM == 8

N_DHCP4_OPTION_REQUESTED_IP_ADDRESS == 50
N_DHCP4_OPTION_MESSAGE_TYPE == 53
N_DHCP4_OPTION_SERVER_IDENTIFIER == 54
N_DHCP4_OPTION_ERROR_MESSAGE == 56
N_DHCP4_OPTION_MAXIMUM_MESSAGE_SIZE == 57
N_DHCP4_OPTION_CLIENT_IDENTIFIER == 61

N_DHCP4_NETWORK_UDP_MAX_SIZE == 576

\* htons / htonl: the value as bytes in network order.
Htons(v) == <<(v \div 256) % 256, v % 256>>
Htonl(v) == <<(v \div 16777216) % 256, (v \div 65536) % 256, (v \div 256) % 256, v % 256>>

Option(code, value) == [code |-> code, value |-> value]

\* A header that never carries the client address.
InitHeaderWithoutCiaddr(c) ==
    [op |-> N_DHCP4_OP_BOOTREQUEST,
     htype |-> c.htype,
     ciaddr |-> 0,
     flags |-> IF c.request_broadcast THEN N_DHCP4_MESSAGE_FLAG_BROADCAST ELSE 0,
     hlen |-> IF c.send_chaddr THEN c.hlen ELSE 0,
     chaddr |-> IF c.send_chaddr
                THEN MemCpy(Bytes(<<>>, CHADDR_SIZE), c.chaddr, c.hlen)
                ELSE Bytes(<<>>, CHADDR_SIZE),
     xid |-> 0,
     secs |-> Htonl(0)]

\* A header that carries the hardware address whatever the hardware type.
InitHeaderAlwaysChaddr(c) ==
    [op |-> N_DHCP4_OP_BOOTREQUEST,
     htype |-> c.htype,
     ciaddr |-> c.ciaddr,
     flags |-> IF c.request_broadcast THEN N_DHCP4_MESSAGE_FLAG_BROADCAST ELSE 0,
     hlen |-> c.hlen,
     chaddr |-> MemCpy(Bytes(<<>>, CHADDR_SIZE), c.chaddr, c.hlen),
     xid |-> 0,
     secs |-> Htonl(0)]

\* The header of a new outgoing message is zeroed; init_header fills it in.
n_dhcp4_c_connection_init_header(c) ==
    [op |-> N_DHCP4_OP_BOOTREQUEST,
     htype |-> c.htype,
     ciaddr |-> c.ciaddr,
     flags |-> IF c.request_broadcast THEN N_DHCP4_MESSAGE_FLAG_BROADCAST ELSE 0,
     hlen |-> IF c.send_chaddr THEN c.hlen ELSE 0,
     chaddr |-> IF c.send_chaddr
                THEN MemCpy(Bytes(<<>>, CHADDR_SIZE), c.chaddr, c.hlen)
                ELSE Bytes(<<>>, CHADDR_SIZE),
     xid |-> 0,
     secs |-> Htonl(0)]

\* A builder that takes the size from the path MTU in every state.
MaximumMessageSizeFromMtu(c, type) ==
    IF type \in {N_DHCP4_MESSAGE_DISCOVER, N_DHCP4_MESSAGE_REQUEST, N_DHCP4_MESSAGE_INFORM}
       /\ c.mtu > 0
    THEN <<Option(N_DHCP4_OPTION_MAXIMUM_MESSAGE_SIZE, Htons(c.mtu))>>
    ELSE <<>>

\* The MAXIMUM_MESSAGE_SIZE option new_message appends, if any.
MaximumMessageSize(c, type) ==
    IF type \in {N_DHCP4_MESSAGE_DISCOVER, N_DHCP4_MESSAGE_REQUEST, N_DHCP4_MESSAGE_INFORM}
    THEN IF c.state <= N_DHCP4_CONNECTION_STATE_PACKET
         THEN IF c.mtu > 0
              THEN <<Option(N_DHCP4_OPTION_MAXIMUM_MESSAGE_SIZE, Htons(c.mtu))>>
              ELSE <<>>
         ELSE <<Option(N_DHCP4_OPTION_MAXIMUM_MESSAGE_SIZE,
                       Htons(N_DHCP4_NETWORK_UDP_MAX_SIZE))>>
    ELSE <<>>

n_dhcp4_c_connection_new_message(c, type) ==
    [header |-> n_dhcp4_c_connection_init_header(c),
     options |->
        <<Option(N_DHCP4_OPTION_MESSAGE_TYPE, <<type>>)>>
        \o (IF c.idlen # 0
            THEN <<Option(N_DHCP4_OPTION_CLIENT_IDENTIFIER,
                          [i \in 1 .. c.idlen |-> c.id[i]])>>
            ELSE <<>>)
        \o MaximumMessageSize(c, type)]

\* A set_xid that leaves secs as it was.
OutgoingSetXidOnly(m, xid, secs) ==
    [m EXCEPT !.header.xid = xid]

n_dhcp4_c_connection_outgoing_set_xid(m, xid, secs) ==
    [m EXCEPT !.header.secs = Htonl(secs), !.header.xid = xid]

(* ---------------------------- send primitives -------------------------- *)

\* A packet broadcast that only asserts the packet socket was once opened.
PacketBroadcastOnceListening(state) == state >= N_DHCP4_CONNECTION_STATE_PACKET

\* The assertions of the three send primitives.
PacketBroadcastAllowed(state) == state = N_DHCP4_CONNECTION_STATE_PACKET

UdpBroadcastAllowed(state) == state > N_DHCP4_CONNECTION_STATE_PACKET

UdpSendAllowed(state) == state > N_DHCP4_CONNECTION_STATE_PACKET

TransportAllowed(transport, state) ==
    CASE transport = "packet_broadcast" -> PacketBroadcastAllowed(state)
      [] transport = "udp_broadcast" -> UdpBroadcastAllowed(state)
      [] transport = "udp_send" -> UdpSendAllowed(state)

\* The descriptor a send primitive writes to.
TransportFd(c, transport) == IF transport = "packet_broadcast" THEN c.pfd ELSE c.ufd

\* The common shape of the eight phase operations: build the message (an
\* error of the codec returns before anything else), set xid and secs where
\* the operation does (asserting secs != 0), append the operation's own
\* options (an error returns), and hand the message to the send primitive,
\* which asserts the state and may fail.  call holds the arguments as the
\* caller passed them; it is kept with the transmission.
PhaseCall(op, type, setsXid, xid, secs, call, extra, transport, newfail, appendfail, sendfail) ==
    /\ Initialised
    /\ sends < MaxSends
    /\ sends' = sends + 1
    /\ IF newfail
       THEN /\ ret' = Returned(op, -ENOMEM, NoMessage)
            /\ UNCHANGED <<fault, sent>>
       ELSE IF setsXid /\ secs = 0
       THEN Abort(op)
       ELSE IF extra # <<>> /\ appendfail
       THEN /\ ret' = Returned(op, -ENOMEM, NoMessage)
            /\ UNCHANGED <<fault, sent>>
       ELSE IF ~TransportAllowed(transport, connection.state)
       THEN Abort(op)
       ELSE IF sendfail \/ ~IsOpen(kernel, TransportFd(connection, transport))
       THEN /\ ret' = Returned(op, -EIO, NoMessage)
            /\ UNCHANGED <<fault, sent>>
       ELSE LET m0 == n_dhcp4_c_connection_new_message(connection, type)
                m1 == IF setsXid
                      THEN n_dhcp4_c_connection_outgoing_set_xid(m0, xid, secs)
                      ELSE m0
            IN  /\ sent' = [transport |-> transport,
                            fd |-> TransportFd(connection, transport),
                            op |-> op,
                            at |-> connection.state,
                            seq |-> sends + 1,
                            call |-> call,
                            message |-> [m1 EXCEPT !.options = @ \o extra]]
                /\ ret' = Returned(op, 0, NoMessage)
                /\ UNCHANGED fault
    /\ UNCHANGED <<connection, efd, kernel, given, arrivals, drain, surfaced>>

\* No error string.
NoError == <<>>

ErrorOption(error) ==
    IF error = NoError THEN <<>>
    ELSE <<Option(N_DHCP4_OPTION_ERROR_MESSAGE, error \o <<0>>)>>

n_dhcp4_c_connection_discover(xid, secs, newfail, sendfail) ==
    PhaseCall("discover", N_DHCP4_MESSAGE_DISCOVER, TRUE, xid, secs,
              [xid |-> xid, secs |-> secs], <<>>,
              "packet_broadcast", newfail, FALSE, sendfail)

n_dhcp4_c_connection_select(client, server, xid, secs, newfail, appendfail, sendfail) ==
    PhaseCall("select", N_DHCP4_MESSAGE_REQUEST, TRUE, xid, secs,
              [client |-> client, server |-> server, xid |-> xid, secs |-> secs],
              <<Option(N_DHCP4_OPTION_REQUESTED_IP_ADDRESS, <<client>>),
                Option(N_DHCP4_OPTION_SERVER_IDENTIFIER, <<server>>)>>,
              "packet_broadcast", newfail, appendfail, sendfail)

n_dhcp4_c_connection_reboot(client, xid, secs, newfail, appendfail, sendfail) ==
    PhaseCall("reboot", N_DHCP4_MESSAGE_REQUEST, TRUE, xid, secs,
              [client |-> client, xid |-> xid, secs |-> secs],
              <<Option(N_DHCP4_OPTION_REQUESTED_IP_ADDRESS, <<client>>)>>,
              "packet_broadcast", newfail, appendfail, sendfail)

n_dhcp4_c_connection_renew(xid, secs, newfail, sendfail) ==
    PhaseCall("renew", N_DHCP4_MESSAGE_REQUEST, TRUE, xid, secs,
              [xid |-> xid, secs |-> secs], <<>>,
              "udp_send", newfail, FALSE, sendfail)

n_dhcp4_c_connection_rebind(xid, secs, newfail, sendfail) ==
    PhaseCall("rebind", N_DHCP4_MESSAGE_REQUEST, TRUE, xid, secs,
              [xid |-> xid, secs |-> secs], <<>>,
              "udp_broadcast", newfail, FALSE, sendfail)

n_dhcp4_c_connection_decline(error, client, server, newfail, appendfail, sendfail) ==
    PhaseCall("decline", N_DHCP4_MESSAGE_DECLINE, FALSE, 0, 0,
              [error |-> error, client |-> client, server |-> server],
              <<Option(N_DHCP4_OPTION_REQUESTED_IP_ADDRESS, <<client>>),
                Option(N_DHCP4_OPTION_SERVER_IDENTIFIER, <<server>>)>>
              \o ErrorOption(error),
              "packet_broadcast", newfail, appendfail, sendfail)

n_dhcp4_c_connection_inform(xid, secs, newfail, sendfail) ==
    PhaseCall("inform", N_DHCP4_MESSAGE_INFORM, TRUE, xid, secs,
              [xid |-> xid, secs |-> secs], <<>>,
              "udp_broadcast", newfail, FALSE, sendfail)

\* A release that names no server.
ReleaseWithoutServer(error, newfail, appendfail, sendfail) ==
    PhaseCall("release", N_DHCP4_MESSAGE_RELEASE, FALSE, 0, 0,
              [error |-> error],
              ErrorOption(error),
              "udp_send", newfail, appendfail, sendfail)

n_dhcp4_c_connection_release(error, newfail, appendfail, sendfail) ==
    PhaseCall("release", N_DHCP4_MESSAGE_RELEASE, FALSE, 0, 0,
              [error |-> error],
              <<Option(N_DHCP4_OPTION_SERVER_IDENTIFIER, <<connection.siaddr>>)>>
              \o ErrorOption(error),
              "udp_send", newfail, appendfail, sendfail)

(* ---------------------------- specification ---------------------------- *)

\* Arguments of the phase operations.
Xids == {7}
Secs == {0, 5}
Errors == {NoError, <<101>>}

\* The operations on the sockets, and the client's handling of its notifier.
\* fails are the failures the environment may inject into a system call
\* that could succeed: BOOLEAN, or {FALSE} for none.
Lifecycle(args, fails) ==
    \/ \E a \in args : n_dhcp4_c_connection_init(a)
    \/ n_dhcp4_c_connection_deinit
    \/ \E sockfail, nomem \in fails : n_dhcp4_c_connection_listen(sockfail, nomem)
    \/ \E client \in Clients, server \in Servers, sockfail, nomem, shutfail \in fails :
          n_dhcp4_c_connection_connect(client, server, sockfail, nomem, shutfail)
    \/ \E perr, uerr \in fails, ub \in {"segv", "none"} :
          n_dhcp4_c_connection_dispatch(perr, uerr, ub)
    \/ NotifierClose
    \/ NotifierOpen

Network(datagrams, max) == \E fd \in Fds, d \in datagrams : Arrive(fd, d, max)

Phases ==
    \/ \E xid \in Xids, secs \in Secs, newfail, sendfail \in BOOLEAN :
          n_dhcp4_c_connection_discover(xid, secs, newfail, sendfail)
    \/ \E client \in Clients, server \in Servers, xid \in Xids, secs \in Secs,
          newfail, appendfail, sendfail \in BOOLEAN :
          n_dhcp4_c_connection_select(client, server, xid, secs, newfail, appendfail, sendfail)
    \/ \E client \in Clients, xid \in Xids, secs \in Secs,
          newfail, appendfail, sendfail \in BOOLEAN :
          n_dhcp4_c_connection_reboot(client, xid, secs, newfail, appendfail, sendfail)
    \/ \E xid \in Xids, secs \in Secs, newfail, sendfail \in BOOLEAN :
          n_dhcp4_c_connection_renew(xid, secs, newfail, sendfail)
    \/ \E xid \in Xids, secs \in Secs, newfail, sendfail \in BOOLEAN :
          n_dhcp4_c_connection_rebind(xid, secs, newfail, sendfail)
    \/ \E error \in Errors, client \in Clients, server \in Servers,
          newfail, appendfail, sendfail \in BOOLEAN :
          n_dhcp4_c_connection_decline(error, client, server, newfail, appendfail, sendfail)
    \/ \E xid \in Xids, secs \in Secs, newfail, sendfail \in BOOLEAN :
          n_dhcp4_c_connection_inform(xid, secs, newfail, sendfail)
    \/ \E error \in Errors, newfail, appendfail, sendfail \in BOOLEAN :
          n_dhcp4_c_connection_release(error, newfail, appendfail, sendfail)

\* The whole program with its environment.
Next == Lifecycle(InitArgs, BOOLEAN) \/ Network(Datagrams, MaxMsgs) \/ Phases

Spec == Init /\ [][Next]_vars

\* The inbound path: the socket operations with the network delivering
\* datagrams.  The phase operations change neither the connection nor the
\* kernel, so they are left out.
NextIO == Lifecycle(InitArgs, BOOLEAN) \/ Network(Datagrams, MaxMsgs)

SpecIO == Init /\ [][NextIO]_vars

\* The drain: one identity, more datagrams.
DrainArgs == {a \in InitArgs : a.htype = ARPHRD_ETHER /\ a.hlen = 2 /\ a.idlen = 0}

DrainDatagrams == {d \in Datagrams : d.kind \in {"ok", "malformed"} /\ d.cid = NoOption}

NextDrain == Lifecycle(DrainArgs, {FALSE}) \/ Network(DrainDatagrams, MaxDrainMsgs)

SpecDrain == Init /\ [][NextDrain]_vars

\* The outbound path: the socket operations and the phase operations, with
\* no datagram arriving (the phase operations read no queue).
NextPhase == Lifecycle(InitArgs, BOOLEAN) \/ Phases

SpecPhase == Init /\ [][NextPhase]_vars

\* The message builder as a function of the connection: the connection is
\* drawn from every state, path MTU and identifier length, and new_message is
\* applied to it once for a message type.
Mtus == {0, 576, 1500}

MessageTypes ==
    {N_DHCP4_MESSAGE_DISCOVER, N_DHCP4_MESSAGE_REQUEST, N_DHCP4_MESSAGE_DECLINE,
     N_DHCP4_MESSAGE_RELEASE, N_DHCP4_MESSAGE_INFORM}

BuildInputs ==
    { [N_DHCP4_C_CONNECTION_NULL EXCEPT
          !.state = st, !.mtu = mtu, !.idlen = idlen,
          !.id = Bytes(<<7, 8>>, IdSize), !.htype = ARPHRD_ETHER,
          !.hlen = 2, !.chaddr = Hw(1, 1), !.send_chaddr = TRUE] :
      st \in N_DHCP4_CONNECTION_STATE_INIT .. N_DHCP4_CONNECTION_STATE_UDP,
      mtu \in Mtus,
      idlen \in {0, 2} }

InitBuild ==
    /\ connection \in BuildInputs
    /\ efd = LowestFree(KernelInit(-1))
    /\ kernel = KernelInit(efd)
    /\ fault = "none"
    /\ ret = [op |-> "none", r |-> 0, message |-> NoMessage, at |-> connection.state]
    /\ given = NoArgs
    /\ arrivals = 0
    /\ drain = <<>>
    /\ surfaced = <<>>
    /\ sent = NoSend
    /\ sends = 0

\* new_message succeeded: *messagep is the message built.
NewMessage(type) ==
    /\ ret.op = "none"
    /\ ret' = Returned("new_message", 0, n_dhcp4_c_connection_new_message(connection, type))
    /\ UNCHANGED <<connection, efd, kernel, fault, given, arrivals, drain, surfaced,
                   sent, sends>>

NextBuild == \E type \in MessageTypes : NewMessage(type)

SpecBuild == InitBuild /\ [][NextBuild]_vars

\* The operations that set xid and secs, on one identity and with no failure
\* injected into the socket operations.
XidPhases ==
    \/ \E xid \in Xids, secs \in Secs, newfail, sendfail \in BOOLEAN :
          n_dhcp4_c_connection_discover(xid, secs, newfail, sendfail)
    \/ \E client \in Clients, server \in Servers, xid \in Xids, secs \in Secs,
          newfail, appendfail, sendfail \in BOOLEAN :
          n_dhcp4_c_connection_select(client, server, xid, secs, newfail, appendfail, sendfail)
    \/ \E client \in Clients, xid \in Xids, secs \in Secs,
          newfail, appendfail, sendfail \in BOOLEAN :
          n_dhcp4_c_connection_reboot(client, xid, secs, newfail, appendfail, sendfail)
    \/ \E xid \in Xids, secs \in Secs, newfail, sendfail \in BOOLEAN :
          n_dhcp4_c_connection_renew(xid, secs, newfail, sendfail)
    \/ \E xid \in Xids, secs \in Secs, newfail, sendfail \in BOOLEAN :
          n_dhcp4_c_connection_rebind(xid, secs, newfail, sendfail)
    \/ \E xid \in Xids, secs \in Secs, newfail, sendfail \in BOOLEAN :
          n_dhcp4_c_connection_inform(xid, secs, newfail, sendfail)

NextXid == Lifecycle(DrainArgs, {FALSE}) \/ XidPhases

SpecXid == Init /\ [][NextXid]_vars

\* The drain under a caller that keeps calling dispatch: one identity, socket
\* operations that meet no failure but a read error on the packet socket,
\* and datagrams that are returned, rejected, malformed or empty.  A read
\* error is transient: of the dispatch calls the caller keeps making, some
\* meet no read error on the packet socket.
MaxLiveMsgs == 1

LiveDatagrams == {d \in Datagrams : d.cid = NoOption}

DispatchReads ==
    \E ub \in {"segv", "none"} : n_dhcp4_c_connection_dispatch(FALSE, FALSE, ub)

NextLive ==
    \/ \E a \in DrainArgs : n_dhcp4_c_connection_init(a)
    \/ n_dhcp4_c_connection_deinit
    \/ n_dhcp4_c_connection_listen(FALSE, FALSE)
    \/ \E client \in Clients, server \in Servers :
          n_dhcp4_c_connection_connect(client, server, FALSE, FALSE, FALSE)
    \/ \E perr \in BOOLEAN, ub \in {"segv", "none"} :
          n_dhcp4_c_connection_dispatch(perr, FALSE, ub)
    \/ NotifierClose
    \/ NotifierOpen
    \/ Network(LiveDatagrams, MaxLiveMsgs)

SpecLive == Init /\ [][NextLive]_vars /\ WF_vars(DispatchReads)

\* Every kind of operation on one identity: the socket operations, a phase
\* operation of each transport (discover on the packet socket, renew on the
\* UDP socket), and datagrams of every shape.  Listen and connect fail here
\* when the notifier was closed or when the registration is refused.
NextState ==
    \/ Lifecycle(DrainArgs, {FALSE})
    \/ Network(LiveDatagrams, MaxLiveMsgs)
    \/ \E xid \in Xids, secs \in Secs :
          n_dhcp4_c_connection_discover(xid, secs, FALSE, FALSE)
    \/ \E xid \in Xids, secs \in Secs :
          n_dhcp4_c_connection_renew(xid, secs, FALSE, FALSE)

SpecState == Init /\ [][NextState]_vars

(* ------------------------------- claims -------------------------------- *)

\* A socket the connection opened is still open.
SocketOpen(fd) == fd \in Fds /\ kernel.fdtab[fd] \in {"packet", "udp"}

\* C1: in every reachable state the descriptor presence table holds: in INIT
\* pfd == -1 and ufd == -1; in PACKET pfd >= 0 and ufd == -1; in DRAINING
\* both >= 0; in UDP pfd == -1 and ufd >= 0.
C1_DescriptorPresence ==
    CASE connection.state = N_DHCP4_CONNECTION_STATE_INIT ->
            connection.pfd = -1 /\ connection.ufd = -1
      [] connection.state = N_DHCP4_CONNECTION_STATE_PACKET ->
            connection.pfd >= 0 /\ connection.ufd = -1
      [] connection.state = N_DHCP4_CONNECTION_STATE_DRAINING ->
            connection.pfd >= 0 /\ connection.ufd >= 0
      [] connection.state = N_DHCP4_CONNECTION_STATE_UDP ->
            connection.pfd = -1 /\ connection.ufd >= 0

\* C2: after a successful connect, the messages dispatch surfaces from the
\* packet socket come in their arrival order, and a message read from the
\* UDP socket is surfaced only once every datagram that was queued on the
\* packet socket at connect has been read (surfaced or dropped).
C2_PacketBeforeUdp ==
    \A i \in 1 .. Len(surfaced) :
        /\ surfaced[i].src = "udp" => surfaced[i].left = 0
        /\ \A j \in 1 .. Len(surfaced) :
              (i < j /\ surfaced[j].src = "packet") =>
                  (surfaced[i].src = "packet" /\ surfaced[i].n < surfaced[j].n)

\* Two queued packet-socket messages were surfaced, then a UDP message.
C2_Witness ==
    /\ Len(surfaced) = 3
    /\ surfaced[1].src = "packet"
    /\ surfaced[2].src = "packet"
    /\ surfaced[3].src = "udp"

\* C3: every message dispatch returns has the connection's chaddr over hlen
\* bytes and a CLIENT_IDENTIFIER equal to the identifier (id, idlen) given
\* to init, an absent option counting as length 0.
C3_ReturnedMatchesIdentity ==
    (ret.op = "dispatch" /\ ret.message # NoMessage /\ given.ifindex >= 0) =>
        /\ MemEq(given.chaddr, ret.message.chaddr, given.hlen)
        /\ QueriedIdLen(ret.message) = given.idlen
        /\ MemEq(given.id, ret.message.cid, given.idlen)

PhaseOps ==
    {"discover", "select", "reboot", "renew", "rebind", "decline", "inform", "release"}

\* The transport the claim fixes for each phase operation.
FixedTransport(op) ==
    CASE op \in {"discover", "select", "reboot", "decline"} -> "packet_broadcast"
      [] op \in {"renew", "release"} -> "udp_send"
      [] op \in {"rebind", "inform"} -> "udp_broadcast"

\* The states the claim allows each phase operation in.
AllowedStates(op) ==
    IF FixedTransport(op) = "packet_broadcast"
    THEN {N_DHCP4_CONNECTION_STATE_PACKET}
    ELSE {N_DHCP4_CONNECTION_STATE_DRAINING, N_DHCP4_CONNECTION_STATE_UDP}

\* Whatever was transmitted went over the operation's transport, on the
\* descriptor of that transport, in an allowed state.
TransmittedAsFixed ==
    sent # NoSend =>
        /\ sent.transport = FixedTransport(sent.op)
        /\ sent.at \in AllowedStates(sent.op)

\* The last phase call transmitted something.
LastCallTransmitted == sent # NoSend /\ sent.seq = sends

\* The last call was a phase operation made in a state it is not allowed in.
CalledInWrongState == ret.op \in PhaseOps /\ ret.at \notin AllowedStates(ret.op)

\* C4 as stated: every transmission uses the operation's transport in an
\* allowed state, and a phase operation called in any other state is detected
\* as a contract violation and transmits nothing.
C4_Original ==
    /\ TransmittedAsFixed
    /\ CalledInWrongState => (fault = "assert" /\ ~LastCallTransmitted)

\* C4 amended: every transmission uses the operation's transport in an
\* allowed state; a phase operation called in any other state transmits
\* nothing, and is detected as a contract violation unless building the
\* message failed first, in which case that error is returned.
C4_TransportAndState ==
    /\ TransmittedAsFixed
    /\ CalledInWrongState =>
          /\ ~LastCallTransmitted
          /\ fault = "assert" \/ (fault = "none" /\ ret.r = -ENOMEM)

\* REBIND went out by UDP broadcast after the drain.
C4_Witness ==
    /\ sent # NoSend
    /\ sent.op = "rebind"
    /\ sent.transport = "udp_broadcast"
    /\ sent.at = N_DHCP4_CONNECTION_STATE_UDP

\* The sockets the connection holds: opened by it, not yet closed.
Owned == {fd \in {connection.pfd, connection.ufd} : SocketOpen(fd)}

\* C5: deinit, in any state and whatever the notifier handle's value,
\* leaves the connection in INIT with pfd == -1 and ufd == -1, and no
\* descriptor the connection owned is open or registered afterwards.
C5_DeinitReleasesAll ==
    [][(given' = Deinitialised /\ given # Deinitialised) =>
          /\ connection'.state = N_DHCP4_CONNECTION_STATE_INIT
          /\ connection'.pfd = -1
          /\ connection'.ufd = -1
          /\ \A fd \in Owned : ~IsOpen(kernel', fd) /\ fd \notin kernel'.reg]_vars

\* C6: when connect fails, the state is still PACKET, ciaddr and siaddr are
\* unchanged (zero: no connect succeeded before), ufd is -1 again and no UDP
\* socket is left open.
C6_ConnectFailureRollsBack ==
    (ret.op = "connect" /\ ret.r < 0) =>
        /\ connection.state = N_DHCP4_CONNECTION_STATE_PACKET
        /\ connection.ciaddr = 0
        /\ connection.siaddr = 0
        /\ connection.ufd = -1
        /\ \A fd \in Fds : kernel.fdtab[fd] # "udp"

\* C7: when listen fails, the connection stays in INIT and keeps no packet
\* socket: pfd == -1 and no descriptor the call opened remains open.
C7_ListenFailureKeepsNothing ==
    (ret.op = "listen" /\ ret.r < 0) =>
        /\ connection.state = N_DHCP4_CONNECTION_STATE_INIT
        /\ connection.pfd = -1
        /\ \A fd \in Fds : kernel.fdtab[fd] # "packet"

\* C8: while the notifier exists, every descriptor the connection holds is
\* registered on it.
C8_HeldIsRegistered ==
    IsEpoll(kernel, efd) => \A fd \in Owned : fd \in kernel.reg

\* C9: once dispatch has returned the one queued packet-socket message and
\* then the UDP message, the connection is in state UDP, the packet socket
\* is deregistered and closed, and pfd == -1.
C9_DrainedThenUdp ==
    (/\ Len(surfaced) = 2
     /\ surfaced[1].src = "packet"
     /\ surfaced[2].src = "udp") =>
        /\ connection.state = N_DHCP4_CONNECTION_STATE_UDP
        /\ \A fd \in Fds : kernel.fdtab[fd] # "packet"
        /\ connection.pfd = -1

\* C10: a read that would block in state PACKET or UDP is reported by
\* dispatch as "no message" with a success result, never as an error.
C10_WouldBlockIsNoMessage ==
    (/\ ret.op = "dispatch"
     /\ ret.at \in {N_DHCP4_CONNECTION_STATE_PACKET, N_DHCP4_CONNECTION_STATE_UDP}) =>
        ret.r # -EAGAIN

\* A step in which dispatch took the datagram at the head of fd's queue.
DispatchRead(fd) ==
    /\ ret'.op = "dispatch"
    /\ fd \in {connection.pfd, connection.ufd}
    /\ kernel.rxq[fd] # <<>>
    /\ kernel'.rxq[fd] = Tail(kernel.rxq[fd])

\* C11: when the datagram dispatch reads is malformed, in any state it reads
\* from, dispatch returns "no message" with a success result.
C11_MalformedIsDropped ==
    [][\A fd \in Fds :
          (DispatchRead(fd) /\ Head(kernel.rxq[fd]).kind = "malformed") =>
              /\ ret'.r = 0
              /\ ret'.message = NoMessage
              /\ fault' = "none"]_vars

\* The message does not carry the identity given to init: its chaddr differs
\* over hlen bytes, or its CLIENT_IDENTIFIER is not (id, idlen).
IdentityMismatch(m) ==
    /\ m.kind = "ok"
    /\ ~(/\ MemEq(given.chaddr, m.chaddr, given.hlen)
         /\ QueriedIdLen(m) = given.idlen
         /\ MemEq(given.id, m.cid, given.idlen))

\* C12: when the message dispatch reads fails identity verification, dispatch
\* returns "no message" with a success result and the connection (state,
\* pfd, ufd), the open descriptors and their registrations are unchanged.
C12_MismatchChangesNothing ==
    [][\A fd \in Fds :
          (/\ DispatchRead(fd)
           /\ given.ifindex >= 0
           /\ IdentityMismatch(Head(kernel.rxq[fd]))) =>
              /\ ret'.r = 0
              /\ ret'.message = NoMessage
              /\ connection' = connection
              /\ kernel'.fdtab = kernel.fdtab
              /\ kernel'.reg = kernel.reg
              /\ kernel'.shut = kernel.shut]_vars

\* C13: when the receive of dispatch returns zero bytes, dispatch completes
\* normally (no message object is dereferenced), returns "no message" with a
\* success result, and the connection state is unchanged.
C13_ZeroLengthIsNoMessage ==
    [][\A fd \in Fds :
          (DispatchRead(fd) /\ Head(kernel.rxq[fd]).kind = "empty") =>
              /\ fault' = "none"
              /\ ret'.r = 0
              /\ ret'.message = NoMessage
              /\ connection'.state = connection.state]_vars

\* C14: init returns -EINVAL exactly when hlen > 16 or idlen == 1 and then
\* leaves the connection as it was; for every other input it returns 0 and
\* the connection is in INIT with both descriptors absent and holds the
\* given ifindex, htype, hlen, chaddr, bhaddr, id and idlen.
C14_InitValidatesAndStores ==
    [][\A a \in InitArgs :
          n_dhcp4_c_connection_init(a) =>
              IF a.hlen > 16 \/ a.idlen = 1
              THEN /\ ret'.r = -EINVAL
                   /\ connection' = connection
              ELSE /\ ret'.r = 0
                   /\ connection'.state = N_DHCP4_CONNECTION_STATE_INIT
                   /\ connection'.pfd = -1
                   /\ connection'.ufd = -1
                   /\ connection'.ifindex = a.ifindex
                   /\ connection'.htype = a.htype
                   /\ connection'.hlen = a.hlen
                   /\ MemEq(connection'.chaddr, a.chaddr, a.hlen)
                   /\ MemEq(connection'.bhaddr, a.bhaddr, a.hlen)
                   /\ MemEq(connection'.id, a.id, a.idlen)
                   /\ connection'.idlen = a.idlen]_vars

\* The options of a message that carry the given code, in order.
OptionsOf(m, code) == SelectSeq(m.options, LAMBDA o : o.code = code)

\* A phase operation transmitted a message on the connection still in use.
Transmitted == sent # NoSend /\ given.ifindex >= 0

\* C15: the message a phase operation transmits contains a CLIENT_IDENTIFIER
\* option iff the connection was initialised with idlen > 0, and then its
\* bytes are the identifier given to init.
C15_ClientIdentifierIffIdlen ==
    Transmitted =>
        LET ids == OptionsOf(sent.message, N_DHCP4_OPTION_CLIENT_IDENTIFIER)
        IN  IF given.idlen > 0
            THEN /\ Len(ids) = 1
                 /\ ids[1].value = [i \in 1 .. given.idlen |-> given.id[i]]
            ELSE ids = <<>>

\* The 16-bit value of an option written in network byte order.
Ntohs(v) == v[1] * 256 + v[2]

\* The type of a built message, from its MESSAGE_TYPE option.
TypeOf(m) == OptionsOf(m, N_DHCP4_OPTION_MESSAGE_TYPE)[1].value[1]

\* C16: a DISCOVER, REQUEST or INFORM message carries exactly one
\* MAXIMUM_MESSAGE_SIZE option iff the state is DRAINING or UDP, or the state
\* is INIT or PACKET and mtu > 0; its value is UDP_MAX_SIZE in the first
\* case and mtu in the second.  DECLINE and RELEASE never carry the option.
C16_MaximumMessageSize ==
    ret.op = "new_message" =>
        LET m     == ret.message
            sizes == OptionsOf(m, N_DHCP4_OPTION_MAXIMUM_MESSAGE_SIZE)
        IN  /\ Len(OptionsOf(m, N_DHCP4_OPTION_MESSAGE_TYPE)) = 1
            /\ IF TypeOf(m) \in {N_DHCP4_MESSAGE_DISCOVER, N_DHCP4_MESSAGE_REQUEST,
                                 N_DHCP4_MESSAGE_INFORM}
               THEN IF connection.state \in {N_DHCP4_CONNECTION_STATE_DRAINING,
                                             N_DHCP4_CONNECTION_STATE_UDP}
                    THEN /\ Len(sizes) = 1
                         /\ Len(sizes[1].value) = 2
                         /\ Ntohs(sizes[1].value) = N_DHCP4_NETWORK_UDP_MAX_SIZE
                    ELSE IF connection.mtu > 0
                    THEN /\ Len(sizes) = 1
                         /\ Len(sizes[1].value) = 2
                         /\ Ntohs(sizes[1].value) = connection.mtu
                    ELSE sizes = <<>>
               ELSE sizes = <<>>

\* A DISCOVER built in PACKET with a path MTU of 1500 carries 1500.
C16_Witness ==
    /\ ret.op = "new_message"
    /\ TypeOf(ret.message) = N_DHCP4_MESSAGE_DISCOVER
    /\ connection.state = N_DHCP4_CONNECTION_STATE_PACKET
    /\ connection.mtu = 1500
    /\ Ntohs(OptionsOf(ret.message, N_DHCP4_OPTION_MAXIMUM_MESSAGE_SIZE)[1].value) = 1500

\* C17: RENEW, REBIND, REBOOT, DISCOVER and INFORM carry no SERVER_IDENTIFIER;
\* SELECT and DECLINE carry exactly one, the server argument; RELEASE
\* carries exactly one, the server address the successful connect recorded.
C17_ServerIdentifier ==
    Transmitted =>
        LET ids == OptionsOf(sent.message, N_DHCP4_OPTION_SERVER_IDENTIFIER)
        IN  CASE sent.op \in {"renew", "rebind", "reboot", "discover", "inform"} ->
                    ids = <<>>
              [] sent.op \in {"select", "decline"} ->
                    /\ Len(ids) = 1
                    /\ ids[1].value = <<sent.call.server>>
              [] sent.op = "release" ->
                    /\ Len(ids) = 1
                    /\ connection.siaddr \in Servers
                    /\ ids[1].value = <<connection.siaddr>>

\* A RELEASE went out after connect(client, server 2) carrying server 2.
C17_Witness ==
    /\ Transmitted
    /\ sent.op = "release"
    /\ connection.siaddr = 2
    /\ OptionsOf(sent.message, N_DHCP4_OPTION_SERVER_IDENTIFIER)[1].value = <<2>>

\* C18: a transmitted SELECT, REBOOT or DECLINE has header ciaddr == 0 and
\* carries the candidate address in REQUESTED_IP_ADDRESS; a transmitted
\* RENEW, REBIND, INFORM or RELEASE has header ciaddr equal to the client
\* address the successful connect recorded and carries no
\* REQUESTED_IP_ADDRESS.
C18_CiaddrOrRequestedIp ==
    Transmitted =>
        LET requested == OptionsOf(sent.message, N_DHCP4_OPTION_REQUESTED_IP_ADDRESS)
        IN  CASE sent.op \in {"select", "reboot", "decline"} ->
                    /\ sent.message.header.ciaddr = 0
                    /\ Len(requested) = 1
                    /\ requested[1].value = <<sent.call.client>>
              [] sent.op \in {"renew", "rebind", "inform", "release"} ->
                    /\ connection.ciaddr \in Clients
                    /\ sent.message.header.ciaddr = connection.ciaddr
                    /\ requested = <<>>
              [] OTHER -> TRUE

\* A RENEW went out after connect(client 10, server) with ciaddr 10.
C18_Witness ==
    /\ Transmitted
    /\ sent.op = "renew"
    /\ sent.message.header.ciaddr = 10
    /\ OptionsOf(sent.message, N_DHCP4_OPTION_REQUESTED_IP_ADDRESS) = <<>>

\* The 32-bit value of a field written in network byte order.
Ntohl(v) == ((v[1] * 256 + v[2]) * 256 + v[3]) * 256 + v[4]

XidOps == {"discover", "select", "reboot", "renew", "rebind", "inform"}

\* A step that is a call of an xid-setting operation with the given secs.
XidCall(secs) ==
    /\ sends' = sends + 1
    /\ ret'.op \in XidOps
    /\ \E xid \in Xids, newfail, sendfail \in BOOLEAN :
          \/ n_dhcp4_c_connection_discover(xid, secs, newfail, sendfail)
          \/ n_dhcp4_c_connection_renew(xid, secs, newfail, sendfail)
          \/ n_dhcp4_c_connection_rebind(xid, secs, newfail, sendfail)
          \/ n_dhcp4_c_connection_inform(xid, secs, newfail, sendfail)
          \/ \E client \in Clients, appendfail \in BOOLEAN :
                \/ n_dhcp4_c_connection_reboot(client, xid, secs, newfail, appendfail, sendfail)
                \/ \E server \in Servers :
                      n_dhcp4_c_connection_select(client, server, xid, secs,
                                                  newfail, appendfail, sendfail)

\* What an xid-setting operation transmitted has a non-zero header secs and
\* carries the xid and the secs of the call.
XidCarried ==
    (sent # NoSend /\ sent.op \in XidOps) =>
        /\ Ntohl(sent.message.header.secs) # 0
        /\ sent.message.header.xid = sent.call.xid
        /\ Ntohl(sent.message.header.secs) = sent.call.secs

\* C19 as stated: an xid-setting operation called with secs == 0 is detected
\* as a contract violation and sends nothing; what such an operation
\* transmits never has header secs == 0 and carries the given xid and secs.
C19_Original ==
    [][/\ XidCall(0) => (fault' = "assert" /\ sent' = sent)
       /\ XidCarried']_vars

\* C19 amended: an xid-setting operation called with secs == 0 sends
\* nothing, and is detected as a contract violation unless creating the
\* message failed first, in which case that error is returned; what such an
\* operation transmits never has header secs == 0 and carries the given xid
\* and secs.
C19_SecsNonZero ==
    [][/\ XidCall(0) =>
             /\ sent' = sent
             /\ fault' = "assert" \/ (fault' = "none" /\ ret'.r = -ENOMEM)
       /\ XidCarried']_vars

\* A DISCOVER called in PACKET died in an assertion: that of secs != 0,
\* since the state is the one its transport asserts.
C19_Witness ==
    /\ fault = "assert"
    /\ ret.op = "discover"
    /\ ret.at = N_DHCP4_CONNECTION_STATE_PACKET
    /\ sent = NoSend

\* The BROADCAST bit of a header's flags.
BroadcastFlag(h) == (h.flags \div N_DHCP4_MESSAGE_FLAG_BROADCAST) % 2 = 1

\* C20: on a connection initialised with htype ARPHRD_INFINIBAND, whatever
\* request_broadcast was passed, a transmitted header has the BROADCAST flag
\* set, hlen == 0 and chaddr all zero; for another htype it has the hlen and
\* chaddr given to init and the BROADCAST flag iff request_broadcast was
\* passed.
C20_InfinibandHeader ==
    Transmitted =>
        LET h == sent.message.header
        IN  IF given.htype = ARPHRD_INFINIBAND
            THEN /\ BroadcastFlag(h)
                 /\ h.hlen = 0
                 /\ \A i \in 1 .. CHADDR_SIZE : h.chaddr[i] = 0
            ELSE /\ h.hlen = given.hlen
                 /\ MemEq(h.chaddr, given.chaddr, given.hlen)
                 /\ BroadcastFlag(h) <=> given.request_broadcast

\* An InfiniBand connection initialised without request_broadcast
\* transmitted a message with the BROADCAST flag.
C20_Witness ==
    /\ Transmitted
    /\ given.htype = ARPHRD_INFINIBAND
    /\ ~given.request_broadcast
    /\ BroadcastFlag(sent.message.header)

\* C21: in state PACKET after a successful listen (pfd registered on the
\* notifier), a connect whose UDP socket creation, registration and shutdown
\* meet no failure succeeds: the UDP socket is open and registered, the
\* registration of pfd is as before, the packet socket is shut down for
\* reads, ciaddr and siaddr are the arguments, and the state is DRAINING.
C21_ConnectRegistersUdp ==
    [][\A client \in Clients, server \in Servers :
          (/\ connection.state = N_DHCP4_CONNECTION_STATE_PACKET
           /\ IsEpoll(kernel, efd)
           /\ connection.pfd \in kernel.reg
           /\ HasFree(kernel)
           /\ n_dhcp4_c_connection_connect(client, server, FALSE, FALSE, FALSE)) =>
              /\ ret'.r = 0
              /\ connection'.state = N_DHCP4_CONNECTION_STATE_DRAINING
              /\ connection'.ufd \in Fds
              /\ kernel'.fdtab[connection'.ufd] = "udp"
              /\ connection'.ufd \in kernel'.reg
              /\ connection.pfd \in kernel'.reg
              /\ connection.pfd \in kernel'.shut
              /\ connection'.ciaddr = client
              /\ connection'.siaddr = server]_vars

C23_StateTransitions ==
    [][connection'.state # connection.state =>
          \/ /\ connection.state = N_DHCP4_CONNECTION_STATE_INIT
             /\ connection'.state = N_DHCP4_CONNECTION_STATE_PACKET
             /\ ret'.op = "listen"
             /\ ret'.r = 0
          \/ /\ connection.state = N_DHCP4_CONNECTION_STATE_PACKET
             /\ connection'.state = N_DHCP4_CONNECTION_STATE_DRAINING
             /\ ret'.op = "connect"
             /\ ret'.r = 0
          \/ /\ connection.state = N_DHCP4_CONNECTION_STATE_DRAINING
             /\ connection'.state = N_DHCP4_CONNECTION_STATE_UDP
             /\ ret'.op = "dispatch"
             /\ kernel.rxq[connection.pfd] = <<>>
          \/ /\ connection'.state = N_DHCP4_CONNECTION_STATE_INIT
             /\ ret'.op = "deinit"]_vars

\* The connection went all the way: a dispatch called in DRAINING left it in
\* UDP, after a phase operation had been called.
C23_Witness ==
    /\ connection.state = N_DHCP4_CONNECTION_STATE_UDP
    /\ ret.op = "dispatch"
    /\ ret.at = N_DHCP4_CONNECTION_STATE_DRAINING
    /\ sends = MaxSends

\* C24: the connection only acts on descriptors it currently owns: every
\* descriptor deinit deregisters and closes is a socket the connection opened
\* and has not closed yet; in particular, deinit in state UDP does not close
\* the packet descriptor a second time.
C24_DeinitActsOnOwned ==
    [][(Initialised /\ given' = Deinitialised /\ efd >= 0) =>
          /\ connection.ufd >= 0 => kernel.fdtab[connection.ufd] = "udp"
          /\ connection.pfd >= 0 => kernel.fdtab[connection.pfd] = "packet"]_vars

====
